---- MODULE Spec2Model ----
(***************************************************************************)
(* Model of the asynchronous event-analysis pipeline of signal-watcher:    *)
(* the Express routes POST /api/events, POST /api/events/simulate,         *)
(* GET /api/events/:id and DELETE /api/watchlists/:id, the detached        *)
(* setImmediate analysis tasks and AIService.analyzeEvent.                 *)
(*                                                                         *)
(* One action is one turn of the Node event loop: a handler or task runs   *)
(* from the completion of the storage/remote call it awaited up to its     *)
(* next await.  The awaited storage call takes effect atomically at the    *)
(* start of the turn that resumes its caller.                              *)
(***************************************************************************)
EXTENDS Integers, Sequences, FiniteSets, TLC

VARIABLES
    watchlists,   \* table "watchlists": id -> row
    events,       \* table "events": id -> row (existing rows only)
    nextEventId,  \* ids handed out so far are 1 .. nextEventId-1
    requests,     \* the HTTP requests received, in arrival order
    tasks,        \* the setImmediate callbacks, in scheduling order
    mockMode,     \* AIService.mockMode
    clock         \* the reading of new Date(); the turns of one run of Spec
                  \* fall within a single reading

vars == <<watchlists, events, nextEventId, requests, tasks, mockMode, clock>>

----------------------------------------------------------------------------
(* Bounds *)

MaxRequests == 2
MaxEvents == 2

----------------------------------------------------------------------------
(* Optional values: null is the empty tuple, a present value v is <<v>> *)

Null == <<>>
Some(v) == <<v>>

----------------------------------------------------------------------------
(* Strings *)

LowerTable ==
    [A |-> "a", B |-> "b", C |-> "c", D |-> "d", E |-> "e", F |-> "f", G |-> "g",
     H |-> "h", I |-> "i", J |-> "j", K |-> "k", L |-> "l", M |-> "m", N |-> "n",
     O |-> "o", P |-> "p", Q |-> "q", R |-> "r", S |-> "s", T |-> "t", U |-> "u",
     V |-> "v", W |-> "w", X |-> "x", Y |-> "y", Z |-> "z"]

LowerChar(c) == IF c \in DOMAIN LowerTable THEN LowerTable[c] ELSE c

toLowerCase(s) ==
    LET lower[i \in 1..(Len(s) + 1)] ==
            IF i > Len(s) THEN "" ELSE LowerChar(SubSeq(s, i, i)) \o lower[i + 1]
    IN  lower[1]

includes(s, sub) ==
    \E i \in 1..(Len(s) - Len(sub) + 1) : SubSeq(s, i, i + Len(sub) - 1) = sub

join(seq, sep) ==
    LET joined[i \in 1..Len(seq)] ==
            IF i = Len(seq) THEN seq[i] ELSE seq[i] \o sep \o joined[i + 1]
    IN  IF Len(seq) = 0 THEN "" ELSE joined[1]

(* a filter that compares the terms as written, without lower-casing them *)
filterCaseSensitive(seq, eventLower) ==
    SelectSeq(seq, LAMBDA term : includes(eventLower, term))

(* watchlistTerms.filter(term => eventLower.includes(term.toLowerCase())) *)
filter(seq, eventLower) ==
    SelectSeq(seq, LAMBDA term : includes(eventLower, toLowerCase(term)))

(* JSON.stringify / JSON.parse of an array of strings that contain no      *)
(* quote or backslash (the terms the model uses): the text is the quoted   *)
(* terms separated by commas inside brackets, and parsing it back yields   *)
(* the text between the (2k-1)-th and the 2k-th quote as the k-th term.    *)
QuoteAll(seq) == [i \in 1..Len(seq) |-> "\"" \o seq[i] \o "\""]

JSONStringifyTerms(terms) == "[" \o join(QuoteAll(terms), ",") \o "]"

QuoteAt(s) == {i \in 1..Len(s) : SubSeq(s, i, i) = "\""}

NthQuote(s, k) ==
    CHOOSE i \in QuoteAt(s) : Cardinality({j \in QuoteAt(s) : j <= i}) = k

JSONParseTerms(s) ==
    [k \in 1..(Cardinality(QuoteAt(s)) \div 2) |->
        SubSeq(s, NthQuote(s, 2 * k - 1) + 1, NthQuote(s, 2 * k) - 1)]

----------------------------------------------------------------------------
(* AIService *)

validSeverities == {"LOW", "MED", "HIGH", "CRITICAL"}

(* the value analyzeEvent resolves to *)
Analyses == [summary : STRING, severity : STRING, suggestedAction : STRING]

(* generateMockAnalysis that tests the HIGH keywords before the CRITICAL   *)
(* ones                                                                    *)
generateMockAnalysisHighFirst(eventType, description, watchlistTerms) ==
    LET analysisOf[eventLower \in STRING] ==
            LET tier == IF \/ includes(eventLower, "suspicious")
                           \/ includes(eventLower, "malware")
                           \/ includes(eventLower, "threat")
                        THEN [severity |-> "HIGH",
                              summary |-> "High-priority security alert: " \o eventType,
                              suggestedAction |-> "Investigate immediately and block if confirmed malicious"]
                        ELSE IF \/ includes(eventLower, "critical")
                                \/ includes(eventLower, "breach")
                                \/ includes(eventLower, "attack")
                        THEN [severity |-> "CRITICAL",
                              summary |-> "Critical security incident: " \o eventType,
                              suggestedAction |-> "Immediate incident response required - escalate to security team"]
                        ELSE IF \/ includes(eventLower, "unusual")
                                \/ includes(eventLower, "anomaly")
                        THEN [severity |-> "MED",
                              summary |-> "Medium-priority security event: " \o eventType,
                              suggestedAction |-> "Review and investigate for potential security implications"]
                        ELSE [severity |-> "LOW",
                              summary |-> eventType \o " event detected",
                              suggestedAction |-> "Monitor for additional activity"]
                matchedTerms == filter(watchlistTerms, eventLower)
            IN  [summary |-> IF Len(matchedTerms) > 0
                             THEN tier.summary \o " (matches watchlist terms: "
                                      \o join(matchedTerms, ", ") \o ")"
                             ELSE tier.summary,
                 severity |-> tier.severity,
                 suggestedAction |-> tier.suggestedAction]
    IN  analysisOf[toLowerCase(eventType \o " " \o description)]

generateMockAnalysis(eventType, description, watchlistTerms) ==
    LET analysisOf[eventLower \in STRING] ==
            LET tier == IF \/ includes(eventLower, "critical")
                           \/ includes(eventLower, "breach")
                           \/ includes(eventLower, "attack")
                        THEN [severity |-> "CRITICAL",
                              summary |-> "Critical security incident: " \o eventType,
                              suggestedAction |-> "Immediate incident response required - escalate to security team"]
                        ELSE IF \/ includes(eventLower, "suspicious")
                                \/ includes(eventLower, "malware")
                                \/ includes(eventLower, "threat")
                        THEN [severity |-> "HIGH",
                              summary |-> "High-priority security alert: " \o eventType,
                              suggestedAction |-> "Investigate immediately and block if confirmed malicious"]
                        ELSE IF \/ includes(eventLower, "unusual")
                                \/ includes(eventLower, "anomaly")
                        THEN [severity |-> "MED",
                              summary |-> "Medium-priority security event: " \o eventType,
                              suggestedAction |-> "Review and investigate for potential security implications"]
                        ELSE [severity |-> "LOW",
                              summary |-> eventType \o " event detected",
                              suggestedAction |-> "Monitor for additional activity"]
                matchedTerms == filter(watchlistTerms, eventLower)
            IN  [summary |-> IF Len(matchedTerms) > 0
                             THEN tier.summary \o " (matches watchlist terms: "
                                      \o join(matchedTerms, ", ") \o ")"
                             ELSE tier.summary,
                 severity |-> tier.severity,
                 suggestedAction |-> tier.suggestedAction]
    IN  analysisOf[toLowerCase(eventType \o " " \o description)]

MockLog(eventType, analysis) ==
    [level |-> "info", message |-> "Mock AI analysis generated",
     eventType |-> eventType, severity |-> analysis.severity]

(* A remote completion is modelled by what JSON.parse makes of its content *)
(* once the code fence is stripped: parsed is Null when the text is not    *)
(* JSON, else the three fields of the object (each Null when absent).      *)
Falsy(opt) == opt = Null \/ opt = Some("")

ParseFallback ==
    [summary |-> "Security event detected requiring analysis",
     severity |-> "MED",
     suggestedAction |-> "Review event details and investigate further"]

ParseOk(response) ==
    /\ response.parsed # Null
    /\ ~Falsy(response.parsed[1].summary)
    /\ ~Falsy(response.parsed[1].severity)
    /\ ~Falsy(response.parsed[1].suggestedAction)

(* parseAIResponse without the severity check *)
parseAIResponseUnchecked(response) ==
    IF ParseOk(response)
    THEN LET parsed == response.parsed[1] IN
         [summary |-> parsed.summary[1],
          severity |-> parsed.severity[1],
          suggestedAction |-> parsed.suggestedAction[1]]
    ELSE ParseFallback

parseAIResponse(response) ==
    IF ParseOk(response)
    THEN LET parsed == response.parsed[1] IN
         [summary |-> parsed.summary[1],
          severity |-> IF parsed.severity[1] \in validSeverities
                       THEN parsed.severity[1] ELSE "MED",
          suggestedAction |-> parsed.suggestedAction[1]]
    ELSE ParseFallback

ParseLog(response) ==
    IF ParseOk(response) THEN <<>>
    ELSE <<[level |-> "warn", message |-> "Failed to parse AI response, using fallback"]>>

RemoteFails(outcome) == outcome.kind = "throw" \/ outcome.content = Null

(* analyzeEvent whose catch returns the fixed default analysis instead of  *)
(* the keyword analysis                                                    *)
analyzeEventRemoteCanned(eventType, description, watchlistTerms, outcome) ==
    IF RemoteFails(outcome)
    THEN ParseFallback
    ELSE parseAIResponse(outcome.content[1])

(* analyzeEvent to which parseAIResponse surfaces its parse failure: the   *)
(* catch then substitutes the keyword analysis                             *)
analyzeEventRemoteSurfaced(eventType, description, watchlistTerms, outcome) ==
    IF RemoteFails(outcome) \/ ~ParseOk(outcome.content[1])
    THEN generateMockAnalysis(eventType, description, watchlistTerms)
    ELSE parseAIResponse(outcome.content[1])

(* analyzeEvent after the remote call has settled with outcome *)
analyzeEventRemote(eventType, description, watchlistTerms, outcome) ==
    IF RemoteFails(outcome)
    THEN generateMockAnalysis(eventType, description, watchlistTerms)
    ELSE parseAIResponse(outcome.content[1])

analyzeEventRemoteLog(eventType, analysis, correlationId, outcome) ==
    IF RemoteFails(outcome)
    THEN << [level |-> "error", message |-> "AI analysis failed",
             eventType |-> eventType, correlationId |-> correlationId],
            MockLog(eventType, analysis) >>
    ELSE ParseLog(outcome.content[1]) \o
         << [level |-> "info", message |-> "AI analysis completed",
             eventType |-> eventType, severity |-> analysis.severity,
             correlationId |-> correlationId] >>

RemoteContents ==
    { [fenced |-> TRUE,
       parsed |-> Some([summary |-> Some("Remote summary"), severity |-> Some("HIGH"),
                        suggestedAction |-> Some("Remote action")])],
      [fenced |-> FALSE,
       parsed |-> Some([summary |-> Some("Remote summary"), severity |-> Some("SEVERE"),
                        suggestedAction |-> Some("Remote action")])],
      [fenced |-> FALSE,
       parsed |-> Some([summary |-> Some("Remote summary"), severity |-> Some("LOW"),
                        suggestedAction |-> Null])],
      [fenced |-> FALSE, parsed |-> Null] }

RemoteOutcomes ==
    { [kind |-> "throw", content |-> Null], [kind |-> "content", content |-> Null] }
    \cup { [kind |-> "content", content |-> Some(c)] : c \in RemoteContents }

----------------------------------------------------------------------------
(* Storage rows *)

(* NewEvent with aiProcessedAt defaulting to the creation time *)
NewEventStamped(id, type, description, metadata, watchlistId, now) ==
    [id |-> id, type |-> type, description |-> description,
     metadata |-> metadata, watchlistId |-> watchlistId,
     aiSummary |-> Null, aiSeverity |-> Null,
     aiSuggestedAction |-> Null, aiProcessedAt |-> Some(now),
     createdAt |-> now, updatedAt |-> now]

(* prisma.event.create: the row as inserted and returned *)
NewEvent(id, type, description, metadata, watchlistId, now) ==
    [id |-> id, type |-> type, description |-> description,
     metadata |-> metadata, watchlistId |-> watchlistId,
     aiSummary |-> Null, aiSeverity |-> Null,
     aiSuggestedAction |-> Null, aiProcessedAt |-> Null,
     createdAt |-> now, updatedAt |-> now]

AnalysisDataSwapped(analysis, now) ==
    [aiSummary |-> Some(analysis.suggestedAction),
     aiSeverity |-> Some(analysis.severity),
     aiSuggestedAction |-> Some(analysis.summary),
     aiProcessedAt |-> Some(now)]

(* the data argument of prisma.event.update *)
AnalysisData(analysis, now) ==
    [aiSummary |-> Some(analysis.summary),
     aiSeverity |-> Some(analysis.severity),
     aiSuggestedAction |-> Some(analysis.suggestedAction),
     aiProcessedAt |-> Some(now)]

(* ApplyUpdate that leaves the timestamp to a second statement *)
ApplyUpdatePartial(row, data, now) ==
    [row EXCEPT !.aiSummary = data.aiSummary,
                !.aiSeverity = data.aiSeverity,
                !.aiSuggestedAction = data.aiSuggestedAction,
                !.updatedAt = now]

(* an update that adds its summary to the one already stored *)
ApplyUpdateAppending(row, data, now) ==
    [row EXCEPT !.aiSummary = IF row.aiSummary = Null THEN data.aiSummary
                              ELSE Some(row.aiSummary[1] \o data.aiSummary[1]),
                !.aiSeverity = data.aiSeverity,
                !.aiSuggestedAction = data.aiSuggestedAction,
                !.aiProcessedAt = data.aiProcessedAt,
                !.updatedAt = now]

(* an update whose data also carries a metadata column, reset to the      *)
(* empty object                                                            *)
ApplyUpdateClobber(row, data, now) ==
    [row EXCEPT !.aiSummary = data.aiSummary,
                !.aiSeverity = data.aiSeverity,
                !.aiSuggestedAction = data.aiSuggestedAction,
                !.aiProcessedAt = data.aiProcessedAt,
                !.metadata = "{}",
                !.updatedAt = now]

(* prisma.event.update on an existing row: one single-row UPDATE *)
ApplyUpdate(row, data, now) ==
    [row EXCEPT !.aiSummary = data.aiSummary,
                !.aiSeverity = data.aiSeverity,
                !.aiSuggestedAction = data.aiSuggestedAction,
                !.aiProcessedAt = data.aiProcessedAt,
                !.updatedAt = now]

CascadeDeleteRestrict(evs, watchlistId) == evs

(* ON DELETE CASCADE of events_watchlistId_fkey *)
CascadeDelete(evs, watchlistId) ==
    [id \in {e \in DOMAIN evs : evs[e].watchlistId # watchlistId} |-> evs[id]]

InitialWatchlists ==
    [id \in {"w1", "w2"} |->
        [id |-> id,
         terms |-> IF id = "w1" THEN JSONStringifyTerms(<<"malware", "phishing">>)
                                ELSE JSONStringifyTerms(<<"login">>)]]

----------------------------------------------------------------------------
(* Requests *)

(* correlationMiddleware: the x-correlation-id header, else uuidv4() *)
CorrelationIdOf(header, n) ==
    IF header # Null /\ header[1] # "" THEN header[1] ELSE "uuid-" \o ToString(n)

(* Inputs of POST /api/events: the x-correlation-id header and the body *)
CreateInputs ==
    { [header |-> Null,
       body |-> [type |-> Some("malware_detection"),
                 description |-> Some("Malware signature detected"),
                 metadata |-> Null, watchlistId |-> Some("w1")]],
      [header |-> Some("cid-1"),
       body |-> [type |-> Some("login_failure"),
                 description |-> Some("Unusual login for admin"),
                 metadata |-> Some("{\"ip\":\"10.0.0.5\"}"), watchlistId |-> Some("w2")]],
      [header |-> Null,
       body |-> [type |-> Some("port_scan"), description |-> Some("Attack on port 22"),
                 metadata |-> Null, watchlistId |-> Some("w3")]],
      [header |-> Null,
       body |-> [type |-> Some(""), description |-> Some("no type"),
                 metadata |-> Null, watchlistId |-> Some("w1")]],
      [header |-> Some("cid-1"),
       body |-> [type |-> Some("port_scan"), description |-> Some("Attack on port 22"),
                 metadata |-> Null, watchlistId |-> Null]] }

(* Inputs of POST /api/events/simulate *)
SimulateInputs ==
    { [header |-> Some("cid-1"), body |-> [watchlistId |-> Some("w1"), count |-> Null]],
      [header |-> Null, body |-> [watchlistId |-> Some("w1"), count |-> Some(2)]],
      [header |-> Null, body |-> [watchlistId |-> Some("w1"), count |-> Some(0)]],
      [header |-> Null, body |-> [watchlistId |-> Some("w3"), count |-> Some(1)]],
      [header |-> Null, body |-> [watchlistId |-> Null, count |-> Some(1)]] }

(* Inputs of PUT /api/watchlists/:id *)
UpdateInputs ==
    { [id |-> "w1", body |-> [terms |-> Some(<<"signature", "Admin">>)]],
      [id |-> "w1", body |-> [terms |-> Some(<<"">>)]] }

(* Path parameter of DELETE /api/watchlists/:id *)
DeleteIds == {"w1", "w2"}

(* a schema whose type and description lost their min(1) *)
ValidCreateEventLoose(body) ==
    body.type # Null /\ body.description # Null /\ body.watchlistId # Null

(* CreateEventSchema.safeParse(req.body).success *)
ValidCreateEvent(body) ==
    /\ body.type # Null /\ Len(body.type[1]) >= 1
    /\ body.description # Null /\ Len(body.description[1]) >= 1
    /\ body.watchlistId # Null

simulatedEvents ==
    << [type |-> "suspicious_domain",
        description |-> "New suspicious domain detected: malicious-example.com",
        metadata |-> "{\"domain\":\"malicious-example.com\",\"ip\":\"192.168.1.100\",\"registrar\":\"unknown\"}"],
       [type |-> "phishing_attempt",
        description |-> "Phishing email detected with suspicious links",
        metadata |-> "{\"sender\":\"attacker@fake-bank.com\",\"recipients\":5,\"blocked\":true}"],
       [type |-> "malware_detection",
        description |-> "Malware signature detected in network traffic",
        metadata |-> "{\"signature\":\"Trojan.Generic.KD.123456\",\"severity\":\"high\",\"source_ip\":\"10.0.0.5\"}"],
       [type |-> "unusual_activity",
        description |-> "Unusual login activity detected from foreign IP",
        metadata |-> "{\"user\":\"admin@company.com\",\"ip\":\"203.0.113.1\",\"country\":\"Unknown\",\"time\":\"02:30 AM\"}"],
       [type |-> "data_exfiltration",
        description |-> "Large data transfer detected to external server",
        metadata |-> "{\"bytes\":500000000,\"destination\":\"198.51.100.5\",\"protocol\":\"HTTPS\"}"] >>

Min(a, b) == IF a < b THEN a ELSE b
Max(a, b) == IF a > b THEN a ELSE b

(* Array.prototype.slice(0, end) *)
slice(seq, end) ==
    SubSeq(seq, 1, IF end < 0 THEN Max(Len(seq) + end, 0) ELSE Min(end, Len(seq)))

(* const { count = 3 } = req.body; simulatedEvents.slice(0, Math.min(count, length)) *)
eventsToCreate(body) ==
    LET count == IF body.count = Null THEN 3 ELSE body.count[1]
    IN  slice(simulatedEvents, Min(count, Len(simulatedEvents)))

NewRequest(kind, header, body, n) ==
    [kind |-> kind, pc |-> "start", correlationId |-> CorrelationIdOf(header, n),
     body |-> body, watchlist |-> Null, eventsToCreate |-> <<>>,
     createdEvents |-> <<>>, response |-> Null, log |-> <<>>]

(* res.status(status).json({success: true, data, message, correlationId}) *)
Respond(req, status, data, message) ==
    [req EXCEPT !.pc = "done",
                !.response = Some([status |-> status, success |-> TRUE, data |-> data,
                                   message |-> message, correlationId |-> req.correlationId])]

(* throw new AppError(message, status) reaching errorHandler *)
ThrowAppError(req, status, message) ==
    [req EXCEPT !.pc = "done",
                !.log = Append(@, [level |-> "error", message |-> "Application Error",
                                   statusCode |-> status, correlationId |-> req.correlationId]),
                !.response = Some([status |-> status, success |-> FALSE, data |-> <<>>,
                                   message |-> message, correlationId |-> req.correlationId])]

(* catch (error) of a route: log it and rethrow as AppError 500 *)
CatchRouteError(req, logMessage, message) ==
    ThrowAppError([req EXCEPT !.log = Append(@, [level |-> "error", message |-> logMessage,
                                                  correlationId |-> req.correlationId])],
                  500, message)

(* Events a request may still create; arrivals are admitted while the      *)
(* events created and still to create fit MaxEvents.                       *)
Demand(req) ==
    IF req.pc = "done" THEN 0
    ELSE IF req.kind = "create" THEN 1
    ELSE IF req.kind = "simulate"
         THEN Len(req.eventsToCreate) - Len(req.createdEvents)
    ELSE 0

RECURSIVE TotalDemand(_)
TotalDemand(reqs) ==
    IF Len(reqs) = 0 THEN 0 ELSE Demand(Head(reqs)) + TotalDemand(Tail(reqs))

Admit(extra) ==
    /\ Len(requests) < MaxRequests
    /\ (nextEventId - 1) + TotalDemand(requests) + extra <= MaxEvents

----------------------------------------------------------------------------
(* Analysis tasks: the callbacks handed to setImmediate *)

(* the variables the callback closes over *)
TaskClosure(eventId, req, kind, eventData, watchlist, correlationId) ==
    [eventId |-> eventId, req |-> req, kind |-> kind,
     eventType |-> eventData.type, description |-> eventData.description,
     metadata |-> eventData.metadata, watchlist |-> watchlist,
     correlationId |-> correlationId]

(* a callback waiting in the immediate queue *)
QueuedTask(closure, now) ==
    [eventId |-> closure.eventId, req |-> closure.req, kind |-> closure.kind,
     eventType |-> closure.eventType, description |-> closure.description,
     metadata |-> closure.metadata, watchlist |-> closure.watchlist,
     correlationId |-> closure.correlationId,
     state |-> "Scheduled", pc |-> "queued",
     remote |-> Null, analysis |-> Null, data |-> Null,
     scheduledAt |-> now, startedAt |-> Null,
     remoteCalls |-> 0, attempts |-> 0, escaped |-> FALSE, log |-> <<>>]

(* a callback that writes its success record before the update resolves *)
IssueUpdateLogFirst(task, analysis, logs, now) ==
    [task EXCEPT !.pc = "update",
                 !.analysis = Some(analysis),
                 !.data = Some(AnalysisData(analysis, now)),
                 !.attempts = @ + 1,
                 !.log = @ \o logs \o
                         <<[level |-> "info", message |-> "Event analyzed by AI",
                            eventId |-> task.eventId, severity |-> analysis.severity,
                            correlationId |-> task.correlationId]>>]

(* analyzeEvent has returned: evaluate the update's arguments and await it *)
IssueUpdate(task, analysis, logs, now) ==
    [task EXCEPT !.pc = "update",
                 !.analysis = Some(analysis),
                 !.data = Some(AnalysisData(analysis, now)),
                 !.attempts = @ + 1,
                 !.log = @ \o logs]

(* an AIService that demotes itself to mock mode for good once one of its *)
(* remote calls has failed                                                 *)
StartTaskDemoted(task, mock, now) ==
    LET terms == JSONParseTerms(task.watchlist.terms)
        running == [task EXCEPT !.state = "Running", !.startedAt = Some(now)]
        resolved[analysis \in Analyses] ==
            IssueUpdate(running, analysis, <<MockLog(task.eventType, analysis)>>, now)
        demoted == \E u \in DOMAIN tasks :
                       tasks[u].remote # Null /\ RemoteFails(tasks[u].remote[1])
    IN  IF mock \/ demoted
        THEN resolved[generateMockAnalysis(task.eventType, task.description, terms)]
        ELSE [running EXCEPT !.pc = "remote", !.remoteCalls = @ + 1]

(* a callback that hands the metadata to the analysis with the description *)
StartTaskMetadata(task, mock, now) ==
    LET terms == JSONParseTerms(task.watchlist.terms)
        running == [task EXCEPT !.state = "Running", !.startedAt = Some(now)]
        resolved[analysis \in Analyses] ==
            IssueUpdate(running, analysis, <<MockLog(task.eventType, analysis)>>, now)
    IN  IF mock
        THEN resolved[generateMockAnalysis(task.eventType,
                                           task.description \o task.metadata, terms)]
        ELSE [running EXCEPT !.pc = "remote", !.remoteCalls = @ + 1]

(* a callback that reads the terms of its watchlist from the store *)
StartTaskCurrentTerms(task, mock, now) ==
    LET terms == JSONParseTerms(IF task.watchlist.id \in DOMAIN watchlists
                                THEN watchlists[task.watchlist.id].terms
                                ELSE task.watchlist.terms)
        running == [task EXCEPT !.state = "Running", !.startedAt = Some(now)]
        resolved[analysis \in Analyses] ==
            IssueUpdate(running, analysis, <<MockLog(task.eventType, analysis)>>, now)
    IN  IF mock
        THEN resolved[generateMockAnalysis(task.eventType, task.description, terms)]
        ELSE [running EXCEPT !.pc = "remote", !.remoteCalls = @ + 1]

(* first turn of the callback: JSON.parse(watchlist.terms), analyzeEvent   *)
StartTask(task, mock, now) ==
    LET terms == JSONParseTerms(task.watchlist.terms)
        running == [task EXCEPT !.state = "Running", !.startedAt = Some(now)]
        resolved[analysis \in Analyses] ==
            IssueUpdate(running, analysis, <<MockLog(task.eventType, analysis)>>, now)
    IN  IF mock
        THEN resolved[generateMockAnalysis(task.eventType, task.description, terms)]
        ELSE [running EXCEPT !.pc = "remote", !.remoteCalls = @ + 1]

(* setImmediate that calls the callback at once instead of queueing it *)
setImmediateInline(queue, closure, now) ==
    Append(queue, StartTask(QueuedTask(closure, now), mockMode, now))

(* setImmediate called twice with the same callback *)
setImmediateTwice(queue, closure, now) ==
    Append(Append(queue, QueuedTask(closure, now)), QueuedTask(closure, now))

(* setImmediate(callback): the callback joins the immediate queue *)
setImmediate(queue, closure, now) == Append(queue, QueuedTask(closure, now))

(* analyzeEvent without its catch: a failed remote call reaches the        *)
(* callback's catch and no update is issued                                *)
RemoteReturnedRethrow(task, outcome, now) ==
    LET terms == JSONParseTerms(task.watchlist.terms)
        resolved[analysis \in Analyses] ==
            IssueUpdate([task EXCEPT !.remote = Some(outcome)], analysis,
                        analyzeEventRemoteLog(task.eventType, analysis,
                                              task.correlationId, outcome),
                        now)
    IN  IF RemoteFails(outcome)
        THEN [task EXCEPT !.state = "Failed", !.pc = "done",
                          !.remote = Some(outcome),
                          !.log = Append(@, [level |-> "error",
                                             message |-> "AI analysis failed for event",
                                             eventId |-> task.eventId,
                                             correlationId |-> task.correlationId])]
        ELSE resolved[analyzeEventRemote(task.eventType, task.description, terms, outcome)]

(* the turn in which openai.chat.completions.create settles *)
RemoteReturned(task, outcome, now) ==
    LET terms == JSONParseTerms(task.watchlist.terms)
        resolved[analysis \in Analyses] ==
            IssueUpdate([task EXCEPT !.remote = Some(outcome)], analysis,
                        analyzeEventRemoteLog(task.eventType, analysis,
                                              task.correlationId, outcome),
                        now)
    IN  resolved[analyzeEventRemote(task.eventType, task.description, terms, outcome)]

(* a callback that reads a variable shared by the loop's iterations: it    *)
(* updates the event created last                                          *)
UpdateTargetLatest(task) == nextEventId - 1

(* where: { id: event.id } *)
UpdateTarget(task) == task.eventId

(* the update resolved: logger.info on the single-create path only *)
WriteSucceeded(task) ==
    [task EXCEPT !.state = "Succeeded", !.pc = "done",
                 !.log = IF task.kind = "create"
                         THEN Append(@, [level |-> "info", message |-> "Event analyzed by AI",
                                         eventId |-> task.eventId,
                                         severity |-> task.analysis[1].severity,
                                         correlationId |-> task.correlationId])
                         ELSE @]

(* a catch block that swallows the error without logging it *)
CatchTaskErrorSilent(task) ==
    [task EXCEPT !.state = "Failed", !.pc = "done"]

(* a catch block that puts the callback back in the queue for a retry *)
CatchTaskErrorRequeue(task) ==
    [task EXCEPT !.state = "Scheduled", !.pc = "queued",
                 !.log = Append(@, [level |-> "error",
                                    message |-> "AI analysis failed for event",
                                    eventId |-> task.eventId,
                                    correlationId |-> task.correlationId])]

(* a catch block that leaves the failed update pending *)
CatchTaskErrorRetry(task) ==
    [task EXCEPT !.state = "Failed",
                 !.log = Append(@, [level |-> "error",
                                    message |-> "AI analysis failed for event",
                                    eventId |-> task.eventId,
                                    correlationId |-> task.correlationId])]

(* catch (error) of the callback: logger.error, nothing rethrown *)
CatchTaskError(task) ==
    [task EXCEPT !.state = "Failed", !.pc = "done",
                 !.log = Append(@, [level |-> "error",
                                    message |-> IF task.kind = "create"
                                                THEN "AI analysis failed for event"
                                                ELSE "AI analysis failed for simulated event",
                                    eventId |-> task.eventId,
                                    correlationId |-> task.correlationId])]

----------------------------------------------------------------------------
(* Initial state *)

Init ==
    /\ watchlists = InitialWatchlists
    /\ events = [id \in {} |-> 0]
    /\ nextEventId = 1
    /\ requests = <<>>
    /\ tasks = <<>>
    /\ mockMode \in BOOLEAN
    /\ clock = 1

----------------------------------------------------------------------------
(* POST /api/events *)

(* arrival up to the await of prisma.event.create: validation and the      *)
(* watchlist lookup, which reads the store in this step                    *)
PostEvent(header, body, dbOk) ==
    /\ Admit(IF ValidCreateEvent(body) THEN 1 ELSE 0)
    /\ LET req == NewRequest("create", header, body, Len(requests) + 1)
       IN  requests' = Append(requests,
                IF ~ValidCreateEvent(body)
                THEN ThrowAppError(req, 400, "Invalid request data")
                ELSE IF ~dbOk
                THEN CatchRouteError(req, "Error creating event", "Failed to create event")
                ELSE IF body.watchlistId[1] \notin DOMAIN watchlists
                THEN ThrowAppError(req, 404, "Watchlist not found")
                ELSE [req EXCEPT !.pc = "createEvent",
                                 !.watchlist = Some(watchlists[body.watchlistId[1]])])
    /\ UNCHANGED <<watchlists, events, nextEventId, tasks, mockMode, clock>>

(* prisma.event.create resolves; setImmediate, logger.info, res.json *)
PostEventCreate(r, dbOk) ==
    /\ requests[r].kind = "create" /\ requests[r].pc = "createEvent"
    /\ LET req == requests[r]
           watchlistId == req.body.watchlistId[1]
           eventData == [type |-> req.body.type[1],
                         description |-> req.body.description[1],
                         metadata |-> IF req.body.metadata = Null THEN "{}"
                                      ELSE req.body.metadata[1]]
           event == NewEvent(nextEventId, eventData.type, eventData.description,
                             eventData.metadata, watchlistId, clock)
       IN  IF dbOk /\ watchlistId \in DOMAIN watchlists
           THEN /\ events' = (nextEventId :> event) @@ events
                /\ nextEventId' = nextEventId + 1
                /\ tasks' = setImmediate(tasks,
                                TaskClosure(event.id, r, "create", eventData,
                                            req.watchlist[1], req.correlationId),
                                clock)
                /\ requests' = [requests EXCEPT ![r] =
                        Respond([req EXCEPT !.createdEvents = <<event>>,
                                            !.log = Append(@, [level |-> "info",
                                                   message |-> "Event created",
                                                   eventId |-> event.id,
                                                   type |-> eventData.type,
                                                   watchlistId |-> watchlistId,
                                                   correlationId |-> req.correlationId])],
                                201, <<event>>, "Event created, AI analysis in progress")]
           ELSE /\ requests' = [requests EXCEPT ![r] =
                        CatchRouteError(req, "Error creating event", "Failed to create event")]
                /\ UNCHANGED <<events, nextEventId, tasks>>
    /\ UNCHANGED <<watchlists, mockMode, clock>>

----------------------------------------------------------------------------
(* POST /api/events/simulate *)

(* a response built from the rows as they are in the store when it is sent *)
RespondSimulatedReread(req) ==
    Respond([req EXCEPT !.log = Append(@, [level |-> "info", message |-> "Events simulated",
                                           count |-> Len(req.createdEvents),
                                           watchlistId |-> req.body.watchlistId[1],
                                           correlationId |-> req.correlationId])],
            201,
            [i \in DOMAIN req.createdEvents |->
                IF req.createdEvents[i].id \in DOMAIN events
                THEN events[req.createdEvents[i].id] ELSE req.createdEvents[i]],
            ToString(Len(req.createdEvents)) \o " events simulated successfully")

(* logger.info("Events simulated") and the 201 response after the loop *)
RespondSimulated(req) ==
    Respond([req EXCEPT !.log = Append(@, [level |-> "info", message |-> "Events simulated",
                                           count |-> Len(req.createdEvents),
                                           watchlistId |-> req.body.watchlistId[1],
                                           correlationId |-> req.correlationId])],
            201, req.createdEvents,
            ToString(Len(req.createdEvents)) \o " events simulated successfully")

(* arrival up to the await of the first prisma.event.create *)
SimulateArrival(req, body, dbOk) ==
    IF body.watchlistId = Null \/ body.watchlistId = Some("")
    THEN ThrowAppError(req, 400, "Watchlist ID is required")
    ELSE IF ~dbOk
    THEN CatchRouteError(req, "Error simulating events", "Failed to simulate events")
    ELSE IF body.watchlistId[1] \notin DOMAIN watchlists
    THEN ThrowAppError(req, 404, "Watchlist not found")
    ELSE LET planned == [req EXCEPT
                            !.watchlist = Some(watchlists[body.watchlistId[1]]),
                            !.eventsToCreate = eventsToCreate(body)]
         IN  IF Len(planned.eventsToCreate) = 0
             THEN RespondSimulated(planned)
             ELSE [planned EXCEPT !.pc = "createEvent"]

PostSimulate(header, body, dbOk) ==
    LET missing == body.watchlistId = Null \/ body.watchlistId = Some("")
        req == NewRequest("simulate", header, body, Len(requests) + 1)
    IN  /\ Admit(IF missing \/ ~dbOk \/ body.watchlistId[1] \notin DOMAIN watchlists
                 THEN 0 ELSE Len(eventsToCreate(body)))
        /\ requests' = Append(requests, SimulateArrival(req, body, dbOk))
        /\ UNCHANGED <<watchlists, events, nextEventId, tasks, mockMode, clock>>

(* a loop that undoes the events and callbacks of the request when one of *)
(* its creates fails                                                       *)
SimulateCreateRollback(r, dbOk) ==
    /\ requests[r].kind = "simulate" /\ requests[r].pc = "createEvent"
    /\ LET req == requests[r]
           watchlistId == req.body.watchlistId[1]
           eventData == req.eventsToCreate[Len(req.createdEvents) + 1]
           event == NewEvent(nextEventId, eventData.type, eventData.description,
                             eventData.metadata, watchlistId, clock)
           pushed == [req EXCEPT !.createdEvents = Append(@, event)]
           mine == {req.createdEvents[i].id : i \in DOMAIN req.createdEvents}
       IN  IF dbOk /\ watchlistId \in DOMAIN watchlists
           THEN /\ events' = (nextEventId :> event) @@ events
                /\ nextEventId' = nextEventId + 1
                /\ tasks' = setImmediate(tasks,
                                TaskClosure(event.id, r, "simulate", eventData,
                                            req.watchlist[1], req.correlationId),
                                clock)
                /\ requests' = [requests EXCEPT ![r] =
                        IF Len(pushed.createdEvents) = Len(req.eventsToCreate)
                        THEN RespondSimulated(pushed)
                        ELSE pushed]
           ELSE /\ requests' = [requests EXCEPT ![r] =
                        CatchRouteError(req, "Error simulating events",
                                        "Failed to simulate events")]
                /\ events' = [id \in DOMAIN events \ mine |-> events[id]]
                /\ tasks' = SelectSeq(tasks, LAMBDA task : task.req # r)
                /\ UNCHANGED nextEventId
    /\ UNCHANGED <<watchlists, mockMode, clock>>

(* one iteration of the for loop: the awaited create resolves, the task is *)
(* scheduled, and the handler either awaits the next create or responds    *)
SimulateCreate(r, dbOk) ==
    /\ requests[r].kind = "simulate" /\ requests[r].pc = "createEvent"
    /\ LET req == requests[r]
           watchlistId == req.body.watchlistId[1]
           eventData == req.eventsToCreate[Len(req.createdEvents) + 1]
           event == NewEvent(nextEventId, eventData.type, eventData.description,
                             eventData.metadata, watchlistId, clock)
           pushed == [req EXCEPT !.createdEvents = Append(@, event)]
       IN  IF dbOk /\ watchlistId \in DOMAIN watchlists
           THEN /\ events' = (nextEventId :> event) @@ events
                /\ nextEventId' = nextEventId + 1
                /\ tasks' = setImmediate(tasks,
                                TaskClosure(event.id, r, "simulate", eventData,
                                            req.watchlist[1], req.correlationId),
                                clock)
                /\ requests' = [requests EXCEPT ![r] =
                        IF Len(pushed.createdEvents) = Len(req.eventsToCreate)
                        THEN RespondSimulated(pushed)
                        ELSE pushed]
           ELSE /\ requests' = [requests EXCEPT ![r] =
                        CatchRouteError(req, "Error simulating events",
                                        "Failed to simulate events")]
                /\ UNCHANGED <<events, nextEventId, tasks>>
    /\ UNCHANGED <<watchlists, mockMode, clock>>

----------------------------------------------------------------------------
(* DELETE /api/watchlists/:id *)

DeleteWatchlist(header, id, dbOk) ==
    /\ Admit(0)
    /\ LET req == NewRequest("delete", header, [watchlistId |-> Some(id)], Len(requests) + 1)
       IN  IF dbOk /\ id \in DOMAIN watchlists
           THEN /\ watchlists' = [w \in DOMAIN watchlists \ {id} |-> watchlists[w]]
                /\ events' = CascadeDelete(events, id)
                /\ requests' = Append(requests,
                        Respond([req EXCEPT !.log = Append(@, [level |-> "info",
                                                   message |-> "Watchlist deleted",
                                                   watchlistId |-> id,
                                                   correlationId |-> req.correlationId])],
                                200, <<>>, "Watchlist deleted successfully"))
           ELSE /\ requests' = Append(requests,
                        CatchRouteError(req, "Error deleting watchlist",
                                        "Failed to delete watchlist"))
                /\ UNCHANGED <<watchlists, events>>
    /\ UNCHANGED <<nextEventId, tasks, mockMode, clock>>

----------------------------------------------------------------------------
(* PUT /api/watchlists/:id; the response carries the watchlist and no event *)

(* UpdateWatchlistSchema: terms is optional, an array of non-empty strings *)
ValidUpdateWatchlist(body) ==
    body.terms = Null \/ \A i \in DOMAIN body.terms[1] : body.terms[1][i] # ""

UpdateWatchlist(header, id, body, dbOk) ==
    /\ Admit(0)
    /\ LET req == NewRequest("update", header, [watchlistId |-> Some(id)], Len(requests) + 1)
       IN  IF ~ValidUpdateWatchlist(body)
           THEN /\ requests' = Append(requests, ThrowAppError(req, 400, "Invalid request data"))
                /\ UNCHANGED watchlists
           ELSE IF dbOk /\ id \in DOMAIN watchlists
           THEN LET watchlist ==
                        IF body.terms = Null THEN watchlists[id]
                        ELSE [watchlists[id] EXCEPT
                                 !.terms = JSONStringifyTerms(body.terms[1])]
                IN  /\ watchlists' = [watchlists EXCEPT ![id] = watchlist]
                    /\ requests' = Append(requests,
                            Respond([req EXCEPT !.log = Append(@, [level |-> "info",
                                                       message |-> "Watchlist updated",
                                                       watchlistId |-> id,
                                                       correlationId |-> req.correlationId])],
                                    200, <<>>, ""))
           ELSE /\ requests' = Append(requests,
                        CatchRouteError(req, "Error updating watchlist",
                                        "Failed to update watchlist"))
                /\ UNCHANGED watchlists
    /\ UNCHANGED <<events, nextEventId, tasks, mockMode, clock>>

----------------------------------------------------------------------------
(* GET /api/events/:id *)

GetEvent(header, id, dbOk) ==
    /\ Admit(0)
    /\ LET req == NewRequest("get", header, [id |-> id], Len(requests) + 1)
       IN  requests' = Append(requests,
                IF ~dbOk
                THEN CatchRouteError(req, "Error retrieving event", "Failed to retrieve event")
                ELSE IF id \notin DOMAIN events
                THEN ThrowAppError(req, 404, "Event not found")
                ELSE Respond(req, 200, <<events[id]>>, ""))
    /\ UNCHANGED <<watchlists, events, nextEventId, tasks, mockMode, clock>>

----------------------------------------------------------------------------
(* Turns of the analysis tasks *)

(* the event loop runs the immediates in the order they were queued *)
TaskStart(t) ==
    /\ tasks[t].state = "Scheduled"
    /\ \A u \in 1..(t - 1) : tasks[u].state # "Scheduled"
    /\ tasks' = [tasks EXCEPT ![t] = StartTask(@, mockMode, clock)]
    /\ UNCHANGED <<watchlists, events, nextEventId, requests, mockMode, clock>>

TaskRemoteReturn(t, outcome) ==
    /\ tasks[t].pc = "remote"
    /\ tasks' = [tasks EXCEPT ![t] = RemoteReturned(@, outcome, clock)]
    /\ UNCHANGED <<watchlists, events, nextEventId, requests, mockMode, clock>>

TaskUpdate(t, dbOk) ==
    /\ tasks[t].pc = "update"
    /\ LET task == tasks[t]
           id == UpdateTarget(task)
       IN  IF dbOk /\ id \in DOMAIN events
           THEN /\ events' = [events EXCEPT ![id] = ApplyUpdate(@, task.data[1], clock)]
                /\ tasks' = [tasks EXCEPT ![t] = WriteSucceeded(task)]
           ELSE /\ tasks' = [tasks EXCEPT ![t] = CatchTaskError(task)]
                /\ UNCHANGED events
    /\ UNCHANGED <<watchlists, nextEventId, requests, mockMode, clock>>

----------------------------------------------------------------------------

Next ==
    \/ \E in \in CreateInputs, ok \in BOOLEAN : PostEvent(in.header, in.body, ok)
    \/ \E r \in DOMAIN requests, ok \in BOOLEAN : PostEventCreate(r, ok)
    \/ \E in \in SimulateInputs, ok \in BOOLEAN : PostSimulate(in.header, in.body, ok)
    \/ \E r \in DOMAIN requests, ok \in BOOLEAN : SimulateCreate(r, ok)
    \/ \E id \in DeleteIds, ok \in BOOLEAN : DeleteWatchlist(Null, id, ok)
    \/ \E in \in UpdateInputs, ok \in BOOLEAN : UpdateWatchlist(Null, in.id, in.body, ok)
    \/ \E id \in 1..nextEventId, ok \in BOOLEAN : GetEvent(Null, id, ok)
    \/ \E t \in DOMAIN tasks : TaskStart(t)
    \/ \E t \in DOMAIN tasks, o \in RemoteOutcomes : TaskRemoteReturn(t, o)
    \/ \E t \in DOMAIN tasks, ok \in BOOLEAN : TaskUpdate(t, ok)

Spec == Init /\ [][Next]_vars

(* The event loop keeps running: a queued callback is eventually called,   *)
(* and a remote or storage call a task awaits eventually settles.          *)
FairSpec ==
    /\ Spec
    /\ WF_vars(\E t \in DOMAIN tasks : TaskStart(t))
    /\ WF_vars(\E t \in DOMAIN tasks, o \in RemoteOutcomes : TaskRemoteReturn(t, o))
    /\ WF_vars(\E t \in DOMAIN tasks, ok \in BOOLEAN : TaskUpdate(t, ok))

----------------------------------------------------------------------------
(* The analysis engine and the result writer on their own: one callback    *)
(* whose captured event type, description and watchlist terms range over   *)
(* the strings analyzeEvent accepts (the route's schema is not in the way: *)
(* empty strings included), run against the row of its event.              *)

MaxClock == 2

EngineEvents ==
    { [type |-> "malware_detection", description |-> "Malware signature detected"],
      [type |-> "alert", description |-> "Critical issue after suspicious login"],
      [type |-> "unusual_activity", description |-> "Threat anomaly"],
      [type |-> "login", description |-> "Unusual hour"],
      [type |-> "heartbeat", description |-> "ok"],
      [type |-> "BREACH", description |-> "Phishing ATTACK"],
      [type |-> "", description |-> ""] }

EngineTerms ==
    { <<>>, <<"malware", "phishing">>, <<"Phishing", "login">>, <<"">> }

EngineInit ==
    \E ev \in EngineEvents, terms \in EngineTerms :
        LET watchlist == [id |-> "w1", terms |-> JSONStringifyTerms(terms)]
            eventData == [type |-> ev.type, description |-> ev.description,
                          metadata |-> "{}"]
        IN  /\ watchlists = [id \in {"w1"} |-> watchlist]
            /\ events = [id \in {1} |->
                             NewEvent(1, ev.type, ev.description, "{}", "w1", 1)]
            /\ nextEventId = 2
            /\ requests = <<>>
            /\ tasks = setImmediate(<<>>,
                            TaskClosure(1, 0, "create", eventData, watchlist, "cid-1"),
                            1)
            /\ mockMode \in BOOLEAN
            /\ clock = 1

(* time passes between two turns *)
Tick ==
    /\ clock < MaxClock
    /\ clock' = clock + 1
    /\ UNCHANGED <<watchlists, events, nextEventId, requests, tasks, mockMode>>

(* the update of the callback issued once more for the same event with the *)
(* same analysis: its data is built again, new Date() included             *)
WriteAgain(t) ==
    /\ tasks[t].state = "Succeeded"
    /\ UpdateTarget(tasks[t]) \in DOMAIN events
    /\ events' = [events EXCEPT ![UpdateTarget(tasks[t])] =
                      ApplyUpdate(@, AnalysisData(tasks[t].analysis[1], clock), clock)]
    /\ UNCHANGED <<watchlists, nextEventId, requests, tasks, mockMode, clock>>

EngineNext ==
    \/ \E t \in DOMAIN tasks : TaskStart(t)
    \/ \E t \in DOMAIN tasks, o \in RemoteOutcomes : TaskRemoteReturn(t, o)
    \/ \E t \in DOMAIN tasks, ok \in BOOLEAN : TaskUpdate(t, ok)
    \/ \E t \in DOMAIN tasks : WriteAgain(t)
    \/ Tick

EngineSpec == EngineInit /\ [][EngineNext]_vars

----------------------------------------------------------------------------
(* One POST /api/events/simulate against w1 followed through its loop and  *)
(* its tasks: the count of the body ranges over -MaxCount..MaxCount and    *)
(* the absent count, so that all five sample events are created.           *)

MaxCount == 11

BatchInputs ==
    { [header |-> Some("cid-1"), body |-> [watchlistId |-> Some("w1"), count |-> Null]] }
    \cup { [header |-> Some("cid-1"),
            body |-> [watchlistId |-> Some("w1"), count |-> Some(c)]] :
                c \in (0 - MaxCount)..MaxCount }

(* answers of the remote service a batch is run against *)
BatchOutcomes ==
    { o \in RemoteOutcomes :
        \/ o.kind = "throw"
        \/ o.content # Null /\ o.content[1].fenced }

BatchInit ==
    \E in \in BatchInputs :
        /\ watchlists = InitialWatchlists
        /\ events = << >>
        /\ nextEventId = 1
        /\ requests = <<SimulateArrival(NewRequest("simulate", in.header, in.body, 1),
                                        in.body, TRUE)>>
        /\ tasks = <<>>
        /\ mockMode \in BOOLEAN
        /\ clock = 1

BatchNext ==
    \/ \E r \in DOMAIN requests, ok \in BOOLEAN : SimulateCreate(r, ok)
    \/ \E t \in DOMAIN tasks : TaskStart(t)
    \/ \E t \in DOMAIN tasks, o \in BatchOutcomes : TaskRemoteReturn(t, o)
    \/ \E t \in DOMAIN tasks, ok \in BOOLEAN : TaskUpdate(t, ok)

BatchSpec == BatchInit /\ [][BatchNext]_vars

----------------------------------------------------------------------------
(* Two events of one watchlist with the same type and description, created *)
(* by requests that differ in their correlation id or in their metadata,   *)
(* each with its task queued.                                              *)

PairVariants ==
    { [correlationId |-> "cid-2", metadata |-> "{}"],
      [correlationId |-> "cid-1", metadata |-> "{\"note\":\"critical breach\"}"] }

PairInit ==
    \E ev \in EngineEvents, terms \in EngineTerms, other \in PairVariants :
        LET watchlist == [id |-> "w1", terms |-> JSONStringifyTerms(terms)]
            eventData == [type |-> ev.type, description |-> ev.description,
                          metadata |-> "{}"]
            otherData == [eventData EXCEPT !.metadata = other.metadata]
        IN  /\ watchlists = [id \in {"w1"} |-> watchlist]
            /\ events = [id \in {1, 2} |->
                             NewEvent(id, ev.type, ev.description,
                                      IF id = 1 THEN "{}" ELSE other.metadata, "w1", 1)]
            /\ nextEventId = 3
            /\ requests = <<>>
            /\ tasks = setImmediate(
                            setImmediate(<<>>,
                                TaskClosure(1, 0, "create", eventData, watchlist, "cid-1"),
                                1),
                            TaskClosure(2, 0, "create", otherData, watchlist,
                                        other.correlationId),
                            1)
            /\ mockMode \in BOOLEAN
            /\ clock = 1

PairNext ==
    \/ \E t \in DOMAIN tasks : TaskStart(t)
    \/ \E t \in DOMAIN tasks, o \in RemoteOutcomes : TaskRemoteReturn(t, o)
    \/ \E t \in DOMAIN tasks, ok \in BOOLEAN : TaskUpdate(t, ok)

PairSpec == PairInit /\ [][PairNext]_vars

----------------------------------------------------------------------------
(* Vocabulary of the properties *)

Unprocessed(e) ==
    /\ e.aiSummary = Null /\ e.aiSeverity = Null
    /\ e.aiSuggestedAction = Null /\ e.aiProcessedAt = Null

Processed(e) ==
    /\ e.aiSummary # Null /\ e.aiSeverity # Null
    /\ e.aiSuggestedAction # Null /\ e.aiProcessedAt # Null

IsCreation(req) == req.kind \in {"create", "simulate"}

(* request r is answered in this step *)
Answers(r) ==
    /\ requests'[r].response # Null
    /\ r \in DOMAIN requests => requests[r].response = Null

(* no remote call, store update or log record of the task has happened *)
NoSideEffect(task) ==
    /\ task.remoteCalls = 0 /\ task.attempts = 0 /\ task.log = <<>>
    /\ task.state = "Scheduled"

----------------------------------------------------------------------------
(* C1: in every reachable state every stored event, and every event a      *)
(* response has handed to a reader, has its four analysis fields either     *)
(* all null or all non-null.                                                *)
C1_AllOrNothing ==
    /\ \A id \in DOMAIN events : Unprocessed(events[id]) \/ Processed(events[id])
    /\ \A r \in DOMAIN requests :
         requests[r].response # Null =>
            \A i \in DOMAIN requests[r].response[1].data :
                LET e == requests[r].response[1].data[i]
                IN  Unprocessed(e) \/ Processed(e)

(* a reader has been handed a processed event *)
C1_Witness ==
    \E r \in DOMAIN requests :
        /\ requests[r].kind = "get"
        /\ requests[r].response # Null
        /\ requests[r].response[1].status = 200
        /\ Processed(requests[r].response[1].data[1])

----------------------------------------------------------------------------
----------------------------------------------------------------------------
(* C3: a task never runs in the turn that schedules it: a task that has     *)
(* left Scheduled was already queued before the step, and the step that     *)
(* starts a task is a turn of its own, in which no handler advances and no  *)
(* task is scheduled.                                                       *)
C3_StartsOnLaterTurn ==
    [][\A t \in DOMAIN tasks' :
          tasks'[t].state # "Scheduled"
          => /\ t \in DOMAIN tasks
             /\ tasks[t].state = "Scheduled"
                   => requests' = requests /\ Len(tasks') = Len(tasks)]_vars

(* a task has started while the simulate request that scheduled it is still *)
(* in its loop                                                              *)
C3_Witness ==
    \E t \in DOMAIN tasks :
        /\ tasks[t].state # "Scheduled"
        /\ requests[tasks[t].req].kind = "simulate"
        /\ requests[tasks[t].req].response = Null

----------------------------------------------------------------------------
(* C4: the tasks ever scheduled for an event id number exactly one for      *)
(* every id a creation request persisted (1 .. nextEventId-1) and zero for  *)
(* every other id; the tasks a simulate request scheduled are, one for one, *)
(* the events it persisted.                                                 *)
TasksFor(id) == {t \in DOMAIN tasks : tasks[t].eventId = id}
TasksOf(r) == {t \in DOMAIN tasks : tasks[t].req = r}

C4_OneTaskPerEvent ==
    /\ \A id \in 1..(nextEventId - 1) : Cardinality(TasksFor(id)) = 1
    /\ \A t \in DOMAIN tasks : tasks[t].eventId \in 1..(nextEventId - 1)
    /\ \A r \in DOMAIN requests :
         requests[r].kind = "simulate" =>
            /\ Cardinality(TasksOf(r)) = Len(requests[r].createdEvents)
            /\ {tasks[t].eventId : t \in TasksOf(r)}
                  = {requests[r].createdEvents[i].id : i \in DOMAIN requests[r].createdEvents}

(* a simulate request has persisted two events and been answered *)
C4_Witness ==
    \E r \in DOMAIN requests :
        /\ requests[r].kind = "simulate"
        /\ Len(requests[r].createdEvents) = 2
        /\ requests[r].response # Null
        /\ Cardinality(TasksOf(r)) = 2

----------------------------------------------------------------------------
(* C5: a creation request whose body fails the schema (for simulate: whose  *)
(* watchlistId is missing) is answered 400, one whose watchlist does not    *)
(* exist is answered 404 (500 when the lookup itself failed); in both cases *)
(* the request persists no event and schedules no task, then or later.      *)
C5_SchemaFails(req) ==
    IF req.kind = "create"
    THEN \/ req.body.type = Null \/ req.body.type = Some("")
         \/ req.body.description = Null \/ req.body.description = Some("")
         \/ req.body.watchlistId = Null
    ELSE req.body.watchlistId = Null \/ req.body.watchlistId = Some("")

C5_LookupFailed(req) ==
    /\ req.response[1].status = 500
    /\ \E i \in DOMAIN req.log :
          req.log[i].message \in {"Error creating event", "Error simulating events"}

C5_FailedChecksCreateNothing ==
    [][/\ Len(requests') = Len(requests) + 1 /\ IsCreation(requests'[Len(requests')])
          => LET req == requests'[Len(requests')]
                 unknown == /\ ~C5_SchemaFails(req)
                            /\ req.body.watchlistId[1] \notin DOMAIN watchlists
             IN  /\ C5_SchemaFails(req)
                      => req.response # Null /\ req.response[1].status = 400
                 /\ unknown
                      => /\ req.response # Null
                         /\ req.response[1].status = 404 \/ C5_LookupFailed(req)
                 /\ (C5_SchemaFails(req) \/ unknown)
                      => /\ events' = events /\ tasks' = tasks
                         /\ nextEventId' = nextEventId
                 /\ (req.response # Null /\ req.response[1].status \in {400, 404})
                      => C5_SchemaFails(req) \/ unknown
       /\ \A r \in DOMAIN requests' :
             (/\ IsCreation(requests'[r]) /\ requests'[r].response # Null
              /\ requests'[r].response[1].status \in {400, 404})
             => /\ requests'[r].createdEvents = <<>>
                /\ \A t \in DOMAIN tasks' : tasks'[t].req # r]_vars

(* one creation request was answered 400 and another 404 *)
C5_Witness ==
    /\ \E r \in DOMAIN requests :
          /\ IsCreation(requests[r]) /\ requests[r].response # Null
          /\ requests[r].response[1].status = 400
    /\ \E r \in DOMAIN requests :
          /\ IsCreation(requests[r]) /\ requests[r].response # Null
          /\ requests[r].response[1].status = 404

----------------------------------------------------------------------------
(* C6: the analysis fields of an event change only in a step in which the   *)
(* one task scheduled for that event goes from Running to Succeeded, and    *)
(* only from unprocessed to processed; a processed event keeps its fields;  *)
(* a task that succeeds leaves every other event as it was; no task issues  *)
(* more than one update.                                                    *)
AnalysisFields(e) == <<e.aiSummary, e.aiSeverity, e.aiSuggestedAction, e.aiProcessedAt>>

Succeeds(t) ==
    /\ t \in DOMAIN tasks /\ tasks[t].state = "Running" /\ tasks'[t].state = "Succeeded"

C6_WrittenOnceByOwnTask ==
    [][/\ \A id \in DOMAIN events \cap DOMAIN events' :
             AnalysisFields(events'[id]) # AnalysisFields(events[id])
             => /\ Unprocessed(events[id]) /\ Processed(events'[id])
                /\ \E t \in DOMAIN tasks :
                      /\ tasks[t].eventId = id /\ Succeeds(t)
                      /\ \A u \in DOMAIN tasks \ {t} : tasks'[u] = tasks[u]
       /\ \A id \in DOMAIN events \cap DOMAIN events' :
             Processed(events[id])
             => AnalysisFields(events'[id]) = AnalysisFields(events[id])
       /\ \A t \in DOMAIN tasks :
             Succeeds(t)
             => /\ DOMAIN events' = DOMAIN events
                /\ \A id \in DOMAIN events \ {tasks[t].eventId} : events'[id] = events[id]
                /\ Processed(events'[tasks[t].eventId])
       /\ \A t \in DOMAIN tasks' : tasks'[t].attempts <= 1]_vars

(* two events are stored, one processed by its task, the other not *)
C6_Witness ==
    \E a \in DOMAIN events, b \in DOMAIN events :
        /\ Processed(events[a]) /\ Unprocessed(events[b])
        /\ \E t \in TasksFor(a) : tasks[t].state = "Succeeded"
        /\ \E t \in TasksFor(b) : tasks[t].state = "Failed"

----------------------------------------------------------------------------
(* C7: when the update of a task finds its event gone (deleted by the       *)
(* cascade of its watchlist), the task ends Failed with nothing escaping,   *)
(* its log gains exactly one record, at error level, carrying the event id  *)
(* and the correlation id of the creating request; the store is left as it  *)
(* was (the event is not re-created, no other row changes) and no request   *)
(* is touched.                                                              *)
C7_DeletedEventWriteFails ==
    [][\A t \in DOMAIN tasks :
          (/\ tasks[t].pc = "update" /\ tasks'[t] # tasks[t]
           /\ tasks[t].eventId \notin DOMAIN events)
          => /\ tasks'[t].state = "Failed" /\ ~tasks'[t].escaped
             /\ Len(tasks'[t].log) = Len(tasks[t].log) + 1
             /\ LET rec == tasks'[t].log[Len(tasks'[t].log)] IN
                   /\ rec.level = "error"
                   /\ "eventId" \in DOMAIN rec /\ rec.eventId = tasks[t].eventId
                   /\ "correlationId" \in DOMAIN rec
                   /\ rec.correlationId = requests[tasks[t].req].correlationId
             /\ events' = events /\ watchlists' = watchlists
             /\ requests' = requests]_vars

(* a watchlist was deleted while a task of one of its events was pending,   *)
(* and that task has ended Failed                                           *)
C7_Witness ==
    \E t \in DOMAIN tasks :
        /\ tasks[t].state = "Failed"
        /\ tasks[t].eventId \notin DOMAIN events
        /\ tasks[t].watchlist.id \notin DOMAIN watchlists
        /\ \E r \in DOMAIN requests :
              /\ requests[r].kind = "delete" /\ requests[r].response[1].status = 200
              /\ r > tasks[t].req

----------------------------------------------------------------------------
(* C8: the response of a creation request is a function of its synchronous *)
(* creation step alone: a 201 carries exactly the rows as prisma.event      *)
(* .create returned them, whatever the tasks have done since; once sent it  *)
(* never changes and no task step touches a request; a task issues at most  *)
(* one update and a Failed task never moves again.                          *)
C8_RowAsCreated(req, i) ==
    LET row == req.createdEvents[i]
        input == IF req.kind = "create"
                 THEN [type |-> req.body.type[1], description |-> req.body.description[1],
                       metadata |-> IF req.body.metadata = Null THEN "{}"
                                    ELSE req.body.metadata[1]]
                 ELSE simulatedEvents[i]
    IN  [id |-> row.id, type |-> input.type, description |-> input.description,
         metadata |-> input.metadata, watchlistId |-> req.body.watchlistId[1],
         aiSummary |-> Null, aiSeverity |-> Null, aiSuggestedAction |-> Null,
         aiProcessedAt |-> Null, createdAt |-> row.createdAt, updatedAt |-> row.createdAt]

C8_ResponseFromCreationOnly ==
    [][/\ \A r \in DOMAIN requests' :
             (/\ IsCreation(requests'[r]) /\ requests'[r].response # Null
              /\ requests'[r].response[1].status = 201)
             => LET req == requests'[r] IN
                /\ DOMAIN req.response[1].data = DOMAIN req.createdEvents
                /\ \A i \in DOMAIN req.createdEvents :
                      req.response[1].data[i] = C8_RowAsCreated(req, i)
       /\ \A r \in DOMAIN requests :
             requests[r].response # Null => requests'[r] = requests[r]
       /\ (Len(tasks') = Len(tasks) /\ tasks' # tasks) => requests' = requests
       /\ \A t \in DOMAIN tasks :
             tasks[t].state = "Failed" => tasks'[t] = tasks[t]
       /\ \A t \in DOMAIN tasks' : tasks'[t].attempts <= 1]_vars

(* a simulate request was answered 201 with two rows although one of its    *)
(* tasks had succeeded and the other failed                                 *)
C8_Witness ==
    \E r \in DOMAIN requests :
        /\ requests[r].kind = "simulate" /\ requests[r].response # Null
        /\ requests[r].response[1].status = 201
        /\ Len(requests[r].response[1].data) = 2
        /\ \E t \in TasksOf(r) : tasks[t].state = "Succeeded"
        /\ \E t \in TasksOf(r) : tasks[t].state = "Failed"

----------------------------------------------------------------------------
(* C9: a task is born Scheduled; its only moves are Scheduled to Running,   *)
(* Running to Succeeded and Running to Failed; a Succeeded or Failed task   *)
(* never changes again; no task leaves the system in any other way.         *)
TaskStates == {"Scheduled", "Running", "Succeeded", "Failed"}

C9_TaskStateMachine ==
    [][/\ DOMAIN tasks \subseteq DOMAIN tasks'
       /\ \A t \in DOMAIN tasks' :
             /\ tasks'[t].state \in TaskStates
             /\ IF t \notin DOMAIN tasks
                THEN tasks'[t].state = "Scheduled"
                ELSE \/ tasks'[t].state = tasks[t].state
                     \/ tasks[t].state = "Scheduled" /\ tasks'[t].state = "Running"
                     \/ tasks[t].state = "Running" /\ tasks'[t].state = "Succeeded"
                     \/ tasks[t].state = "Running" /\ tasks'[t].state = "Failed"
             /\ (t \in DOMAIN tasks /\ tasks[t].state \in {"Succeeded", "Failed"})
                   => tasks'[t] = tasks[t]]_vars

(* all four states are populated at once or in turn: one task has           *)
(* Succeeded and another has Failed                                         *)
C9_Witness ==
    /\ \E t \in DOMAIN tasks : tasks[t].state = "Succeeded"
    /\ \E t \in DOMAIN tasks : tasks[t].state = "Failed"

----------------------------------------------------------------------------
(* C10: under FairSpec every scheduled task eventually is Succeeded or      *)
(* Failed; a task becomes Failed only when the update it issued failed, and *)
(* becomes Succeeded exactly when its update wrote the event, also when its *)
(* remote call failed and the fallback produced the analysis.               *)
Terminal(t) == t \in DOMAIN tasks /\ tasks[t].state \in {"Succeeded", "Failed"}

C10_TasksTerminate ==
    /\ \A t \in 1..MaxEvents : [](t \in DOMAIN tasks => <>Terminal(t))
    /\ [][\A t \in DOMAIN tasks :
             /\ (tasks'[t].state = "Failed" /\ tasks[t].state # "Failed")
                   => tasks[t].pc = "update" /\ events' = events
             /\ (tasks[t].pc = "update" /\ tasks'[t] # tasks[t])
                   => (tasks'[t].state = "Succeeded"
                         <=> /\ tasks[t].eventId \in DOMAIN events
                             /\ Unprocessed(events[tasks[t].eventId])
                             /\ Processed(events'[tasks[t].eventId]))]_vars

(* a task whose remote call failed, and which fell back, has Succeeded *)
C10_Witness ==
    \E t \in DOMAIN tasks :
        /\ tasks[t].state = "Succeeded"
        /\ tasks[t].remoteCalls = 1
        /\ \E i \in DOMAIN tasks[t].log : tasks[t].log[i].message = "AI analysis failed"

----------------------------------------------------------------------------
(* C11: analyzeEvent is total. Whatever the event type, the description,   *)
(* the terms (empty strings and an empty list included) and the outcome of *)
(* the remote call, the step in which analyzeEvent returns hands its       *)
(* caller a record of summary, severity and suggestedAction whose severity *)
(* is LOW, MED, HIGH or CRITICAL, and the caller goes on to its update: no *)
(* error reaches the callback's catch.                                     *)
C11_Returns(t) ==
    /\ tasks'[t] # tasks[t]
    /\ \/ tasks[t].pc = "queued" /\ mockMode
       \/ tasks[t].pc = "remote"

C11_AnalyzeEventTotal ==
    [][\A t \in DOMAIN tasks :
          C11_Returns(t)
          => /\ tasks'[t].analysis # Null
             /\ DOMAIN tasks'[t].analysis[1] = {"summary", "severity", "suggestedAction"}
             /\ tasks'[t].analysis[1].severity \in {"LOW", "MED", "HIGH", "CRITICAL"}
             /\ tasks'[t].state = "Running" /\ tasks'[t].pc = "update"
             /\ ~tasks'[t].escaped]_vars

(* analyzeEvent has returned for an empty type, an empty description and   *)
(* an empty term list after its remote call threw                          *)
C11_Witness ==
    \E t \in DOMAIN tasks :
        /\ tasks[t].eventType = "" /\ tasks[t].description = ""
        /\ JSONParseTerms(tasks[t].watchlist.terms) = <<>>
        /\ tasks[t].remote # Null /\ tasks[t].remote[1].kind = "throw"
        /\ tasks[t].analysis # Null

----------------------------------------------------------------------------
(* C12: when the remote call of a task throws (network error, timeout) or  *)
(* returns no content, the analysis analyzeEvent returns is the keyword    *)
(* analysis of the same event type, description and watchlist terms, after *)
(* one remote attempt; it is what a process in mock mode returns for them, *)
(* and when the update of such a task succeeds the stored summary,         *)
(* severity and suggested action are those of the keyword analysis.        *)
C12_Fallback(task) ==
    generateMockAnalysis(task.eventType, task.description,
                         JSONParseTerms(task.watchlist.terms))

C12_RemoteFailed(task) ==
    /\ task.remote # Null
    /\ \/ task.remote[1].kind = "throw"
       \/ task.remote[1].content = Null

C12_FailedRemoteEqualsFallback ==
    [][\A t \in DOMAIN tasks :
          /\ (tasks[t].pc = "remote" /\ tasks'[t] # tasks[t]
                  /\ C12_RemoteFailed(tasks'[t]))
                => /\ tasks'[t].analysis = Some(C12_Fallback(tasks[t]))
                   /\ tasks'[t].remoteCalls = 1
          /\ (tasks[t].pc = "queued" /\ mockMode /\ tasks'[t] # tasks[t])
                => /\ tasks'[t].analysis = Some(C12_Fallback(tasks[t]))
                   /\ tasks'[t].remoteCalls = 0
          /\ (tasks[t].pc = "update" /\ tasks'[t].state = "Succeeded"
                  /\ (mockMode \/ C12_RemoteFailed(tasks[t])))
                => LET e == events'[tasks[t].eventId]
                       f == C12_Fallback(tasks[t])
                   IN  /\ e.aiSummary = Some(f.summary)
                       /\ e.aiSeverity = Some(f.severity)
                       /\ e.aiSuggestedAction = Some(f.suggestedAction)]_vars

(* the remote call returned no content and the event is stored with the    *)
(* keyword analysis, matched-terms clause included                         *)
C12_Witness ==
    \E t \in DOMAIN tasks :
        /\ ~mockMode /\ tasks[t].state = "Succeeded"
        /\ tasks[t].remote = Some([kind |-> "content", content |-> Null])
        /\ tasks[t].eventId \in DOMAIN events
        /\ events[tasks[t].eventId].aiSummary =
               Some("High-priority security alert: malware_detection"
                        \o " (matches watchlist terms: malware)")

----------------------------------------------------------------------------
(* C13: a remote response that is not JSON once its code fence is stripped, *)
(* or that lacks summary, severity or suggestedAction.                      *)
C13_Malformed(task) ==
    /\ task.remote # Null
    /\ task.remote[1].kind = "content" /\ task.remote[1].content # Null
    /\ LET parsed == task.remote[1].content[1].parsed IN
           \/ parsed = Null
           \/ parsed[1].summary \in {Null, Some("")}
           \/ parsed[1].severity \in {Null, Some("")}
           \/ parsed[1].suggestedAction \in {Null, Some("")}

C13_LogOf(t) == SubSeq(tasks'[t].log, Len(tasks[t].log) + 1, Len(tasks'[t].log))

----------------------------------------------------------------------------
(* C14: the mode chosen by the AIService constructor never changes, and    *)
(* every analyzeEvent call that has begun has made exactly one remote      *)
(* attempt when the process is not in mock mode and none when it is,       *)
(* whatever became of the earlier calls.                                   *)
C14_ModeFixedOneAttempt ==
    [][/\ mockMode' = mockMode
       /\ \A t \in DOMAIN tasks' :
             tasks'[t].remoteCalls =
                 IF tasks'[t].pc = "queued" \/ mockMode' THEN 0 ELSE 1]_vars

(* the first call failed and fell back, and the second call made its own   *)
(* remote attempt all the same                                             *)
C14_Witness ==
    /\ Len(tasks) >= 2
    /\ C12_RemoteFailed(tasks[1]) /\ tasks[1].pc = "done"
    /\ tasks[2].pc = "remote" /\ tasks[2].remoteCalls = 1

----------------------------------------------------------------------------
(* C15: the stored aiSeverity of every event is null or one of LOW, MED,   *)
(* HIGH and CRITICAL, whatever the remote service answered.                *)
C15_StoredSeverityInDomain ==
    \A id \in DOMAIN events :
        events[id].aiSeverity \in
            {Null, Some("LOW"), Some("MED"), Some("HIGH"), Some("CRITICAL")}

(* the remote service answered with severity SEVERE and the event is       *)
(* stored with the remote summary and severity MED                         *)
C15_Witness ==
    \E t \in DOMAIN tasks :
        /\ tasks[t].remote # Null /\ tasks[t].remote[1].content # Null
        /\ tasks[t].remote[1].content[1].parsed # Null
        /\ tasks[t].remote[1].content[1].parsed[1].severity = Some("SEVERE")
        /\ tasks[t].state = "Succeeded"
        /\ tasks[t].eventId \in DOMAIN events
        /\ events[tasks[t].eventId].aiSeverity = Some("MED")
        /\ events[tasks[t].eventId].aiSummary = Some("Remote summary")

----------------------------------------------------------------------------
(* C16: the severity of the keyword analysis is decided by the lower-cased *)
(* text "type description" alone, in strict priority: CRITICAL when it     *)
(* contains critical, breach or attack; else HIGH when it contains         *)
(* suspicious, malware or threat; else MED when it contains unusual or     *)
(* anomaly; else LOW; and the suggested action is the fixed sentence of    *)
(* that tier. A text with both critical and suspicious is CRITICAL.        *)
C16_Contains(task, words) ==
    \E w \in words :
        includes(toLowerCase(task.eventType \o " " \o task.description), w)

C16_Rank(task) ==
    IF C16_Contains(task, {"critical", "breach", "attack"}) THEN "CRITICAL"
    ELSE IF C16_Contains(task, {"suspicious", "malware", "threat"}) THEN "HIGH"
    ELSE IF C16_Contains(task, {"unusual", "anomaly"}) THEN "MED"
    ELSE "LOW"

C16_Action(rank) ==
    CASE rank = "CRITICAL" ->
             "Immediate incident response required - escalate to security team"
      [] rank = "HIGH" -> "Investigate immediately and block if confirmed malicious"
      [] rank = "MED" -> "Review and investigate for potential security implications"
      [] OTHER -> "Monitor for additional activity"

C16_ByKeywords(task) == task.analysis # Null /\ (mockMode \/ C12_RemoteFailed(task))

----------------------------------------------------------------------------
(* C17: the summary of the keyword analysis names the event type; it ends  *)
(* with a matched-terms clause exactly when some watchlist term is a       *)
(* case-insensitive substring of "type description", and the clause lists  *)
(* the matching terms, all of them and no other, in watchlist order. For   *)
(* terms [malware, phishing] and the event malware_detection / "Malware    *)
(* signature detected" the severity is HIGH and the clause names malware   *)
(* only.                                                                   *)
C17_Matches(task, term) ==
    includes(toLowerCase(task.eventType \o " " \o task.description), toLowerCase(term))

C17_Matched(task) ==
    LET terms == JSONParseTerms(task.watchlist.terms)
        at == {i \in DOMAIN terms : C17_Matches(task, terms[i])}
        nth[k \in 1..Cardinality(at)] ==
            CHOOSE i \in at : Cardinality({j \in at : j <= i}) = k
    IN  [k \in 1..Cardinality(at) |-> terms[nth[k]]]

C17_EndsWith(s, suffix) ==
    /\ Len(s) >= Len(suffix)
    /\ SubSeq(s, Len(s) - Len(suffix) + 1, Len(s)) = suffix

C17_Clause(matched) == " (matches watchlist terms: " \o join(matched, ", ") \o ")"

C17_SummaryNamesTypeAndMatches ==
    \A t \in DOMAIN tasks :
        C16_ByKeywords(tasks[t])
        => LET summary == tasks[t].analysis[1].summary
               matched == C17_Matched(tasks[t])
           IN  /\ includes(summary, tasks[t].eventType)
               /\ IF Len(matched) = 0
                  THEN ~includes(summary, "matches watchlist terms")
                  ELSE /\ C17_EndsWith(summary, C17_Clause(matched))
                       /\ ~includes(SubSeq(summary, 1,
                                           Len(summary) - Len(C17_Clause(matched))),
                                    "matches watchlist terms")
               /\ (/\ tasks[t].eventType = "malware_detection"
                   /\ tasks[t].description = "Malware signature detected"
                   /\ JSONParseTerms(tasks[t].watchlist.terms) = <<"malware", "phishing">>)
                  => /\ tasks[t].analysis[1].severity = "HIGH"
                     /\ C17_EndsWith(summary, " (matches watchlist terms: malware)")
                     /\ ~includes(summary, "phishing")

(* the scenario's event has been analysed by keywords *)
C17_Witness ==
    \E t \in DOMAIN tasks :
        /\ C16_ByKeywords(tasks[t])
        /\ tasks[t].eventType = "malware_detection"
        /\ JSONParseTerms(tasks[t].watchlist.terms) = <<"malware", "phishing">>
        /\ tasks[t].analysis[1].summary =
               "High-priority security alert: malware_detection"
                   \o " (matches watchlist terms: malware)"

----------------------------------------------------------------------------
(* C18: the update of a task applied a second time to its event, with the  *)
(* same analysis. Such a step is the only one that leaves the tasks and    *)
(* the clock alone while a task has Succeeded.                             *)
C18_SecondWrite(t) ==
    /\ tasks[t].state = "Succeeded" /\ tasks[t].eventId \in DOMAIN events
    /\ tasks' = tasks /\ clock' = clock

(* C18 as stated: the second write leaves the stored record, aiProcessedAt *)
(* included, identical to the record after the first.                      *)
C18_AsStated ==
    [][\A t \in DOMAIN tasks : C18_SecondWrite(t) => events' = events]_vars

(* C18 amended: the second write leaves aiSummary, aiSeverity and          *)
(* aiSuggestedAction and every other field but two identical; aiProcessedAt *)
(* and updatedAt become the time of the second write, so the record is     *)
(* identical only when no time has passed since the first.                 *)
C18_Amended ==
    [][\A t \in DOMAIN tasks :
          C18_SecondWrite(t)
          => LET id == tasks[t].eventId IN
             /\ DOMAIN events' = DOMAIN events
             /\ \A other \in DOMAIN events \ {id} : events'[other] = events[other]
             /\ events'[id] = [events[id] EXCEPT !.aiProcessedAt = Some(clock),
                                                 !.updatedAt = clock]
             /\ (events[id].aiProcessedAt = Some(clock) /\ events[id].updatedAt = clock)
                   => events'[id] = events[id]]_vars

(* the analysis was written at time 1 and again at time 2 *)
C18_Witness ==
    \E t \in DOMAIN tasks :
        /\ tasks[t].state = "Succeeded" /\ tasks[t].eventId \in DOMAIN events
        /\ tasks[t].data[1].aiProcessedAt = Some(1)
        /\ events[tasks[t].eventId].aiProcessedAt = Some(2)
        /\ events[tasks[t].eventId].aiSummary = tasks[t].data[1].aiSummary

----------------------------------------------------------------------------
(* C19: a step of an analysis task (a step that changes a task without     *)
(* queueing one) changes nothing in the store but the four analysis fields *)
(* and the update timestamp of the task's own event: no watchlist, no      *)
(* other event, no event created or deleted, and the event's id, type,     *)
(* description, metadata, watchlistId and creation time stay as they were. *)
C19_TaskStep(t) ==
    /\ Len(tasks') = Len(tasks)
    /\ tasks'[t] # tasks[t]

C19_TaskFrame ==
    [][\A t \in DOMAIN tasks :
          C19_TaskStep(t)
          => /\ watchlists' = watchlists
             /\ DOMAIN events' = DOMAIN events
             /\ \A id \in DOMAIN events :
                   /\ id # tasks[t].eventId => events'[id] = events[id]
                   /\ events'[id].id = events[id].id
                   /\ events'[id].type = events[id].type
                   /\ events'[id].description = events[id].description
                   /\ events'[id].metadata = events[id].metadata
                   /\ events'[id].watchlistId = events[id].watchlistId
                   /\ events'[id].createdAt = events[id].createdAt]_vars

(* a task has written the analysis of an event that carries metadata,      *)
(* while another event is in the store                                     *)
C19_Witness ==
    \E t \in DOMAIN tasks :
        /\ tasks[t].state = "Succeeded" /\ tasks[t].eventId \in DOMAIN events
        /\ events[tasks[t].eventId].metadata # "{}"
        /\ events[tasks[t].eventId].aiProcessedAt # Null
        /\ \E other \in DOMAIN events : other # tasks[t].eventId

----------------------------------------------------------------------------
(* C20: every log record emitted while an analysis task runs (by            *)
(* analyzeEvent, generateMockAnalysis, parseAIResponse and the callback's   *)
(* own logging) carries a correlationId equal to the correlation id of the  *)
(* request that created the task's event.                                   *)
C20_AllTaskLogsCorrelated ==
    \A t \in DOMAIN tasks :
        \A i \in DOMAIN tasks[t].log :
            /\ "correlationId" \in DOMAIN tasks[t].log[i]
            /\ tasks[t].log[i].correlationId = requests[tasks[t].req].correlationId

----------------------------------------------------------------------------
(* C21: for every analysis task, of a single create and of a simulate      *)
(* alike, the request's log holds one dispatch record (event id, type,     *)
(* watchlist id, correlation id), and once the task has ended its log      *)
(* holds exactly one terminal record: a success record (event id,          *)
(* severity, correlation id) if it Succeeded, a failure record (event id,  *)
(* correlation id) if it Failed.                                           *)
C21_Dispatch(rec, task) ==
    /\ {"eventId", "type", "watchlistId", "correlationId"} \subseteq DOMAIN rec
    /\ rec.eventId = task.eventId /\ rec.type = task.eventType
    /\ rec.watchlistId = task.watchlist.id
    /\ rec.correlationId = task.correlationId

C21_Success(rec, task) ==
    /\ rec.level = "info"
    /\ {"eventId", "severity", "correlationId"} \subseteq DOMAIN rec
    /\ rec.eventId = task.eventId /\ rec.correlationId = task.correlationId

C21_Failure(rec, task) ==
    /\ rec.level = "error"
    /\ {"eventId", "correlationId"} \subseteq DOMAIN rec
    /\ rec.eventId = task.eventId /\ rec.correlationId = task.correlationId

C21_DispatchAndTerminalRecords ==
    \A t \in DOMAIN tasks :
        LET task == tasks[t]
            reqLog == requests[task.req].log
            successes == {i \in DOMAIN task.log : C21_Success(task.log[i], task)}
            failures == {i \in DOMAIN task.log : C21_Failure(task.log[i], task)}
        IN  /\ requests[task.req].response # Null
                  => Cardinality({i \in DOMAIN reqLog : C21_Dispatch(reqLog[i], task)}) = 1
            /\ task.state = "Succeeded"
                  => Cardinality(successes) = 1 /\ Cardinality(failures) = 0
            /\ task.state = "Failed"
                  => Cardinality(failures) = 1 /\ Cardinality(successes) = 0
            /\ task.state \in {"Scheduled", "Running"}
                  => Cardinality(successes) = 0 /\ Cardinality(failures) = 0

----------------------------------------------------------------------------
(* C22: with the five sample events simulated against one watchlist, a     *)
(* step of one task changes no other task and no other event, whatever the *)
(* order of the steps and whether that step fails; and in mock mode the    *)
(* analysis stored for an event is the keyword analysis of its own type,   *)
(* description and captured terms, whichever tasks ended before it.        *)
C22_Stored(e) == <<e.aiSummary, e.aiSeverity, e.aiSuggestedAction>>

C22_Expected(task) ==
    <<Some(C12_Fallback(task).summary), Some(C12_Fallback(task).severity),
      Some(C12_Fallback(task).suggestedAction)>>

C22_TasksIndependent ==
    [][/\ \A t \in DOMAIN tasks :
             tasks'[t] # tasks[t]
             => /\ \A u \in DOMAIN tasks \ {t} : tasks'[u] = tasks[u]
                /\ \A id \in DOMAIN events \ {tasks[t].eventId} : events'[id] = events[id]
                /\ tasks'[t].state = "Failed" => events' = events
       /\ \A t \in DOMAIN tasks' :
             LET task == tasks'[t]
             IN  /\ (mockMode /\ task.state = "Succeeded")
                       => C22_Stored(events'[task.eventId]) = C22_Expected(task)
                 /\ task.state \in {"Scheduled", "Running", "Failed"}
                       => Unprocessed(events'[task.eventId])
      ]_vars

(* five tasks in mock mode: the last has succeeded before the first has    *)
(* written, and the third has failed                                       *)
C22_Witness ==
    /\ mockMode /\ Len(tasks) = 5
    /\ tasks[5].state = "Succeeded" /\ Processed(events[5])
    /\ tasks[3].state = "Failed"
    /\ tasks[1].pc = "update" /\ tasks[2].state = "Succeeded"
    /\ tasks[4].state = "Succeeded"

----------------------------------------------------------------------------
(* C23: the watchlistId of every stored event names a stored watchlist,    *)
(* also when a watchlist is deleted between the lookup of a request and    *)
(* its create, or between two creates of one simulate request; and a       *)
(* create is refused once the watchlist of its request is gone.            *)
C23_NoOrphanEvents ==
    [][/\ \A id \in DOMAIN events' : events'[id].watchlistId \in DOMAIN watchlists'
       /\ \A r \in DOMAIN requests :
             (requests[r].pc = "createEvent" /\ requests'[r] # requests[r]
                /\ requests[r].body.watchlistId[1] \notin DOMAIN watchlists)
             => /\ events' = events /\ tasks' = tasks
                /\ requests'[r].response[1].status = 500
      ]_vars

(* a simulate request has created one event, its watchlist was deleted,    *)
(* and the next create was refused                                         *)
C23_Witness ==
    \E r \in DOMAIN requests :
        /\ requests[r].kind = "simulate" /\ requests[r].response # Null
        /\ requests[r].response[1].status = 500
        /\ Len(requests[r].createdEvents) = 1
        /\ requests[r].body.watchlistId[1] \notin DOMAIN watchlists
        /\ \E d \in DOMAIN requests :
              /\ requests[d].kind = "delete" /\ requests[d].response[1].status = 200

----------------------------------------------------------------------------
(* C24: once a task has ended Failed it takes no further step (no retry),  *)
(* and for as long as its event is stored the four analysis fields of the  *)
(* event are null.                                                         *)
C24_FailedStaysUnprocessed ==
    [][/\ \A t \in DOMAIN tasks :
             tasks[t].state = "Failed" => tasks'[t] = tasks[t]
       /\ \A t \in DOMAIN tasks' :
             (tasks'[t].state = "Failed" /\ tasks'[t].eventId \in DOMAIN events')
             => Unprocessed(events'[tasks'[t].eventId])
      ]_vars

(* a task has failed, its event is still stored, and a later task of the   *)
(* same store has succeeded since                                          *)
C24_Witness ==
    \E t \in DOMAIN tasks, u \in DOMAIN tasks :
        /\ tasks[t].state = "Failed" /\ tasks[t].attempts = 1
        /\ tasks[t].eventId \in DOMAIN events
        /\ t < u /\ tasks[u].state = "Succeeded"

----------------------------------------------------------------------------
(* C25: in mock mode, with the event loop running every queued callback    *)
(* and settling every awaited update, each stored event is eventually      *)
(* processed unless it is deleted or its update fails; and the summary,    *)
(* severity and suggested action stored by its task are the keyword        *)
(* analysis of the event's type and description and of the watchlist       *)
(* terms the task read.                                                    *)
C25_TaskOf(id) == CHOOSE t \in DOMAIN tasks : tasks[t].eventId = id

C25_FallbackEventuallyStored ==
    /\ \A id \in 1..MaxEvents :
          [](mockMode /\ id \in DOMAIN events
               => <>(\/ id \notin DOMAIN events
                     \/ tasks[C25_TaskOf(id)].state = "Failed"
                     \/ /\ Processed(events[id])
                        /\ C22_Stored(events[id]) = C22_Expected(tasks[C25_TaskOf(id)])))
    /\ [](mockMode
            => \A id \in DOMAIN events :
                  LET task == tasks[C25_TaskOf(id)]
                  IN  /\ task.eventType = events[id].type
                      /\ task.description = events[id].description
                      /\ Processed(events[id])
                            => /\ task.state = "Succeeded"
                               /\ C22_Stored(events[id]) = C22_Expected(task))

(* a mock-mode event whose watchlist terms match its text is processed     *)
C25_Witness ==
    /\ mockMode
    /\ \E id \in DOMAIN events :
          /\ Processed(events[id])
          /\ events[id].aiSeverity = Some("HIGH")
          /\ events[id].aiSummary = Some(C12_Fallback(tasks[C25_TaskOf(id)]).summary)

----------------------------------------------------------------------------
(* C26: the steps of one task are ordered analyze, write, outcome record:  *)
(* the update is issued only with the analysis analyzeEvent returned (and, *)
(* outside mock mode, after the remote call has settled); the event is     *)
(* written and a success record added only by the step that resolves the   *)
(* pending update; a failed update adds a failure record, writes nothing   *)
(* and leaves no success record.                                           *)
C26_Added(t, Kind(_, _)) ==
    \E i \in DOMAIN tasks'[t].log :
        i > Len(tasks[t].log) /\ Kind(tasks'[t].log[i], tasks'[t])

C26_TaskStepsOrdered ==
    [][\A t \in DOMAIN tasks :
          LET a == tasks[t]
              b == tasks'[t]
              id == a.eventId
              written == /\ id \in DOMAIN events /\ id \in DOMAIN events'
                         /\ AnalysisFields(events'[id]) # AnalysisFields(events[id])
          IN  /\ b.attempts # a.attempts
                    => /\ a.attempts = 0 /\ b.attempts = 1 /\ a.analysis = Null
                       /\ b.analysis # Null /\ b.pc = "update"
                       /\ b.data = Some(AnalysisData(b.analysis[1], clock))
                       /\ ~mockMode => a.pc = "remote" /\ b.remote # Null
                       /\ events' = events
                       /\ ~C26_Added(t, C21_Success) /\ ~C26_Added(t, C21_Failure)
              /\ written
                    => /\ a.pc = "update" /\ a.analysis # Null
                       /\ b.state = "Succeeded"
                       /\ events'[id].aiSeverity = Some(a.analysis[1].severity)
              /\ C26_Added(t, C21_Success)
                    => a.pc = "update" /\ written /\ ~C26_Added(t, C21_Failure)
              /\ C26_Added(t, C21_Failure)
                    => /\ a.pc = "update" /\ events' = events /\ b.state = "Failed"
                       /\ \A i \in DOMAIN b.log : ~C21_Success(b.log[i], b)
              /\ (a.pc = "update" /\ b # a)
                    => C26_Added(t, C21_Failure) \/ written
      ]_vars

(* a task of a single create has called the remote service, written the    *)
(* analysis it returned and logged its success                             *)
C26_Witness ==
    \E t \in DOMAIN tasks :
        /\ ~mockMode /\ tasks[t].kind = "create" /\ tasks[t].state = "Succeeded"
        /\ tasks[t].remote # Null /\ tasks[t].remoteCalls = 1
        /\ \E i \in DOMAIN tasks[t].log : C21_Success(tasks[t].log[i], tasks[t])
        /\ tasks[t].eventId \in DOMAIN events /\ Processed(events[tasks[t].eventId])

----------------------------------------------------------------------------
(* C27: the keyword analysis depends on the event's type and description   *)
(* and on the watchlist terms only: of two tasks whose events differ only  *)
(* in the correlation id or only in the metadata, once both have obtained  *)
(* their analysis by keywords the two analyses and the update data built   *)
(* from them are the same, once both have succeeded the stored summary,    *)
(* severity and suggested action are the same, and each ends Succeeded     *)
(* exactly when its own update is applied.                                 *)
C27_Data(task) ==
    <<task.data[1].aiSummary, task.data[1].aiSeverity, task.data[1].aiSuggestedAction>>

----------------------------------------------------------------------------
(* C28: a task analyses with the watchlist terms its request read before   *)
(* creating the event: the keyword analysis it obtains is the one of those *)
(* terms, also when PUT /api/watchlists/:id has replaced the terms of the  *)
(* stored watchlist between the creation and the task's run.               *)
C28_TermsRead(task) == JSONParseTerms(requests[task.req].watchlist[1].terms)

C28_UsesCapturedTerms ==
    [][\A t \in DOMAIN tasks :
          (tasks[t].analysis = Null /\ C16_ByKeywords(tasks'[t]))
          => tasks'[t].analysis[1]
                = generateMockAnalysis(tasks[t].eventType, tasks[t].description,
                                       C28_TermsRead(tasks[t]))
      ]_vars

(* the terms of the stored watchlist were replaced after the event was     *)
(* created, and the stored analysis is the one of the earlier terms, not   *)
(* the one the new terms would give                                        *)
C28_Witness ==
    \E t \in DOMAIN tasks :
        LET task == tasks[t]
        IN  /\ task.state = "Succeeded" /\ mockMode
            /\ task.watchlist.id \in DOMAIN watchlists
            /\ watchlists[task.watchlist.id].terms # requests[task.req].watchlist[1].terms
            /\ task.scheduledAt <= clock
            /\ \E r \in DOMAIN requests :
                  r > task.req /\ requests[r].kind = "update"
                               /\ requests[r].response[1].status = 200
            /\ task.analysis[1]
                  # generateMockAnalysis(task.eventType, task.description,
                        JSONParseTerms(watchlists[task.watchlist.id].terms))
            /\ events[task.eventId].aiSummary = Some(task.analysis[1].summary)

----------------------------------------------------------------------------
(* C29: for every integer count of a simulate request (3 when absent) the  *)
(* number of events created is at most count (none for a count below 1)   *)
(* and at most 5, and is min(count, 5) for a count of 1 to 10; the data    *)
(* and the message of the 201 response report exactly the events created.  *)
C29_Count(req) == IF req.body.count = Null THEN 3 ELSE req.body.count[1]

C29_CreatedWithinCount ==
    \A r \in DOMAIN requests :
        LET req == requests[r]
            created == Cardinality({t \in DOMAIN tasks : tasks[t].req = r})
        IN  req.kind = "simulate"
            => /\ created = Len(req.createdEvents)
               /\ created <= 5
               /\ created <= Max(C29_Count(req), 0)
               /\ (req.response # Null /\ req.response[1].status = 201)
                     => /\ Len(req.response[1].data) = created
                        /\ req.response[1].message
                              = ToString(created) \o " events simulated successfully"
                        /\ C29_Count(req) \in 1..10 => created = Min(C29_Count(req), 5)

----------------------------------------------------------------------------
(* C30: a simulate request is not rolled back when one of its creates      *)
(* fails: the step that fails the k-th create answers 500 and leaves the   *)
(* k-1 events created before it stored and their k-1 tasks in place, free  *)
(* to run to their end, and once the request is answered no further task   *)
(* is scheduled for it.                                                    *)
C30_NoRollback ==
    [][\A r \in DOMAIN requests :
          LET a == requests[r]
              b == requests'[r]
              mine == {a.createdEvents[i].id : i \in DOMAIN a.createdEvents}
          IN  /\ (a.kind = "simulate" /\ a.pc = "createEvent" /\ b.response # Null
                     /\ b.response[1].status = 500)
                    => /\ ~b.response[1].success
                       /\ events' = events /\ tasks' = tasks
                       /\ nextEventId' = nextEventId
                       /\ b.createdEvents = a.createdEvents
                       /\ mine \subseteq DOMAIN events'
                       /\ {tasks'[t].eventId : t \in {u \in DOMAIN tasks' : tasks'[u].req = r}}
                             = mine
              /\ (a.kind = "simulate" /\ a.pc = "done")
                    => /\ b = a
                       /\ Len(tasks') = Len(tasks)
                       /\ mine \subseteq DOMAIN events'
                       /\ (b.response[1].status = 500
                              => Len(a.createdEvents) < Len(a.eventsToCreate))
      ]_vars

(* the third create of a five-event request failed: two events are stored, *)
(* their two tasks have since ended, one of them having written its event  *)
C30_Witness ==
    /\ requests[1].response # Null /\ requests[1].response[1].status = 500
    /\ Len(requests[1].eventsToCreate) = 5 /\ Len(requests[1].createdEvents) = 2
    /\ DOMAIN events = {1, 2} /\ Len(tasks) = 2
    /\ tasks[1].state = "Succeeded" /\ Processed(events[1])
    /\ tasks[2].state \in {"Succeeded", "Failed"}

====
